---- MODULE Spec2Model ----
(***************************************************************************)
(* A model of taskcheck: the availability computation of                   *)
(* taskcheck/__main__.py, the parallel allocator of taskcheck/parallel.py  *)
(* and the sequential allocator of taskcheck/__main__.py.                  *)
(*                                                                         *)
(* Quantities.  Python computes in float hours.  The model computes in     *)
(* exact integer ticks, TicksPerHour ticks to the hour: one minute is 5    *)
(* ticks and one hundredth of an hour is 3 ticks, so H + M/60, the raw     *)
(* decimal clock values of the configuration (9.30) and the 0.01 hour      *)
(* epsilon are all whole numbers of ticks.  Float rounding is not          *)
(* modelled.  Urgencies are kept in 1/TicksPerHour urgency units, so that  *)
(* coefficient * hours is coefficient * ticks.                             *)
(*                                                                         *)
(* Dates are day numbers relative to today (today = 0); a time of day is   *)
(* a number of minutes since midnight; a decimal clock value H.MM of the   *)
(* configuration is the integer 100 * H + MM.  A string that the code      *)
(* takes apart (a PDTH duration) is a sequence of one-character strings.   *)
(***************************************************************************)
EXTENDS Integers, Sequences, FiniteSets, TLC

\* ---------------------------------------------------------------- bounds

NTasks == 2

DaysAhead == 2

\* The sequential allocator is followed for this many passes of its outer
\* loop `while any(todo)`.
MaxPasses == 2

\* The export holds at most this many optional attributes (a wait date, a
\* set of dependencies) over all its tasks.
MaxOptional == 1

\* --------------------------------------------------------------- helpers

TicksPerHour == 300

Min2(a, b) == IF a <= b THEN a ELSE b

Max2(a, b) == IF a >= b THEN a ELSE b

Abs(a) == IF a < 0 THEN 0 - a ELSE a

RECURSIVE SumSeq(_)
SumSeq(s) == IF s = <<>> THEN 0 ELSE Head(s) + SumSeq(Tail(s))

RECURSIVE MaxSeq(_)
MaxSeq(s) == IF Len(s) = 1 THEN s[1] ELSE Max2(Head(s), MaxSeq(Tail(s)))

RECURSIVE Flatten(_)
Flatten(ss) == IF ss = <<>> THEN <<>> ELSE Head(ss) \o Flatten(Tail(ss))

Range(s) == {s[i] : i \in DOMAIN s}

\* The elements of the set of integers S in ascending order.
RECURSIVE SortedSeq(_)
SortedSeq(S) ==
    IF S = {} THEN <<>>
    ELSE LET m == CHOOSE x \in S : \A y \in S : x <= y
         IN  <<m>> \o SortedSeq(S \ {m})

\* ------------------------------------------------- strings and durations

Digits == <<"0", "1", "2", "3", "4", "5", "6", "7", "8", "9">>

IsDigit(c) == \E i \in 1..10 : Digits[i] = c

DigitValue(c) == (CHOOSE i \in 1..10 : Digits[i] = c) - 1

Contains(s, c) == \E i \in DOMAIN s : s[i] = c

\* s.split(c): the pieces of s between the occurrences of c.
RECURSIVE Split(_, _)
Split(s, c) ==
    IF ~Contains(s, c) THEN <<s>>
    ELSE LET i == CHOOSE k \in DOMAIN s : s[k] = c /\ \A j \in 1..(k - 1) : s[j] # c
         IN  <<SubSeq(s, 1, i - 1)>> \o Split(SubSeq(s, i + 1, Len(s)), c)

\* int(s) on a string of decimal digits; anything else raises ValueError.
RECURSIVE DigitsToNat(_)
DigitsToNat(s) ==
    IF s = <<>> THEN 0
    ELSE 10 * DigitsToNat(SubSeq(s, 1, Len(s) - 1)) + DigitValue(s[Len(s)])

ParseInt(s) ==
    IF s # <<>> /\ \A i \in DOMAIN s : IsDigit(s[i])
    THEN [ok |-> TRUE, value |-> DigitsToNat(s)]
    ELSE [ok |-> FALSE, value |-> 0]

\* str(n) of an integer.
RECURSIVE NatToDigits(_)
NatToDigits(n) ==
    IF n < 10 THEN <<Digits[n + 1]>>
    ELSE NatToDigits(n \div 10) \o <<Digits[(n % 10) + 1]>>

IntToStr(n) == IF n < 0 THEN <<"-">> \o NatToDigits(0 - n) ELSE NatToDigits(n)

\* PDTH_to_hours: the duration in hours, or ok = FALSE where Python raises
\* (split("D") giving more than two pieces, split("T")[1] out of range, int()
\* of a non-number).
PDTH_to_hours(duration_str) ==
    LET s1 == SubSeq(duration_str, 2, Len(duration_str))
        hasD == Contains(s1, "D")
        dparts == Split(s1, "D")
        days == IF hasD THEN ParseInt(dparts[1]) ELSE [ok |-> TRUE, value |-> 0]
        s2 == IF hasD /\ Len(dparts) = 2 THEN dparts[2] ELSE s1
        hasH == Contains(s2, "H")
        tparts == Split(s2, "T")
        hours == IF ~hasH THEN [ok |-> TRUE, value |-> 0]
                 ELSE IF Len(tparts) < 2 THEN [ok |-> FALSE, value |-> 0]
                 ELSE ParseInt(Split(tparts[2], "H")[1])
    IN  IF hasD /\ Len(dparts) # 2 THEN [ok |-> FALSE, value |-> 0]
        ELSE IF ~days.ok \/ ~hours.ok THEN [ok |-> FALSE, value |-> 0]
        ELSE [ok |-> TRUE, value |-> days.value * 24 + hours.value]

\* The text Python prints for a number of hours given in ticks: the integer
\* for whole hours, else the integer part, a point and two decimals.
NumberToStr(ticks) ==
    IF ticks % TicksPerHour = 0 THEN IntToStr(ticks \div TicksPerHour)
    ELSE LET hundredths == (ticks * 100) \div TicksPerHour
         IN  IntToStr(hundredths \div 100) \o <<".">>
             \o NatToDigits((hundredths % 100) \div 10)
             \o NatToDigits(hundredths % 10)

\* A slip: the day field is left out when there are no days.
hours_to_PDTH_Short(hours) ==
    LET days == hours \div (24 * TicksPerHour)
        rest == hours % (24 * TicksPerHour)
    IN  IF days = 0 THEN <<"P", "T">> \o NumberToStr(rest) \o <<"H">>
        ELSE <<"P">> \o IntToStr(days) \o <<"D", "T">> \o NumberToStr(rest) \o <<"H">>

\* A slip: the hours are not reduced modulo 24.
hours_to_PDTH_NoCarry(hours) ==
    LET days == hours \div (24 * TicksPerHour)
    IN  <<"P">> \o IntToStr(days) \o <<"D", "T">> \o NumberToStr(hours) \o <<"H">>

\* hours_to_PDTH of an amount of hours given in ticks: days = hours // 24,
\* hours = hours % 24, f"P{days}DT{hours}H".
hours_to_PDTH(hours) ==
    LET days == hours \div (24 * TicksPerHour)
        rest == hours % (24 * TicksPerHour)
    IN  <<"P">> \o IntToStr(days) \o <<"D", "T">> \o NumberToStr(rest) \o <<"H">>

\* ------------------------------------------------------------ clock values

\* _hours_to_decimal: a decimal clock value H.MM as H + MM/60 hours, in ticks.
hours_to_decimal(hour) == (hour \div 100) * TicksPerHour + (hour % 100) * 5

\* _hours_to_time: a decimal clock value H.MM as the time of day H:MM, in minutes.
hours_to_time(hour) == (hour \div 100) * 60 + (hour % 100)

\* _time_to_decimal: a time of day as hour + minute/60 hours, in ticks.
time_to_decimal(time) == (time \div 60) * TicksPerHour + (time % 60) * 5

\* A decimal clock value H.MM read as the plain number H.MM of hours, in ticks.
RawHours(hour) == hour * 3

\* ------------------------------------------------------------ configuration

Weekdays == 0..6

\* config["time_maps"]: name -> weekday (0 = monday) -> windows <<start, end>>
\* as decimal clock values; a weekday without windows is absent from the dict.
time_maps ==
    [work |-> [w \in Weekdays |->
                  CASE w = 0 -> << <<900, 1030>> >>
                    [] w = 1 -> << <<900, 1000>>, <<1030, 1130>> >>
                    [] w = 2 -> << <<900, 1100>> >>
                    [] OTHER -> <<>>],
     home |-> [w \in Weekdays |->
                  CASE w = 0 -> << <<1000, 1040>> >>
                    [] w = 1 -> << <<1800, 1930>> >>
                    [] OTHER -> <<>>]]

\* The values of task["time_map"].split(",") that the tasks may carry.
TimeMapNames == {<<"work">>, <<"work", "home">>}

\* The calendars get_calendars may return: each calendar is a list of events
\* sorted by start; an instant is <<day, minute of the day>>.
Event(d1, m1, d2, m2) == [start |-> <<d1, m1>>, end |-> <<d2, m2>>]

CalendarChoices ==
    { <<>>,
      << <<Event(0, 570, 0, 600), Event(0, 1320, 1, 1439), Event(2, 0, 2, 1439)>> >>,
      << <<Event(0, 540, 0, 630)>>, <<Event(0, 540, 0, 630)>> >> }

\* The wall clock values datetime.now().time() is drawn from, in minutes.
ClockChoices == {480, 645}

\* The weekdays today may be.
TodayChoices == {0}

\* ------------------------------------------------------- available hours

\* date.strftime("%A") of the date `date` days after today.
WeekdayOf(today_weekday, date) == (today_weekday + date) % 7

\* A slip: an event that starts before the date or ends after it is not
\* clipped to the date.
RECURSIVE CalendarBlockedUnclipped(_, _, _, _)
CalendarBlockedUnclipped(calendar, date, schedule_start, schedule_end) ==
    IF calendar = <<>> THEN 0
    ELSE LET event == Head(calendar)
             rest == CalendarBlockedUnclipped(Tail(calendar), date,
                                              schedule_start, schedule_end)
         IN  IF event.start[1] > date THEN 0
             ELSE IF event.end[1] < date THEN rest
             ELSE IF event.start[2] < schedule_end /\ event.end[2] > schedule_start
             THEN time_to_decimal(Min2(schedule_end, event.end[2]))
                  - time_to_decimal(Max2(schedule_start, event.start[2])) + rest
             ELSE rest

\* One calendar's contribution to a window's blocked hours: the events are
\* walked in order and the walk breaks at the first one starting after date.
RECURSIVE CalendarBlocked(_, _, _, _)
CalendarBlocked(calendar, date, schedule_start, schedule_end) ==
    IF calendar = <<>> THEN 0
    ELSE LET event == Head(calendar)
             event_start == IF event.start[1] < date THEN 0 ELSE event.start[2]
             event_end == IF event.end[1] > date THEN 23 * 60 + 59 ELSE event.end[2]
             rest == CalendarBlocked(Tail(calendar), date, schedule_start, schedule_end)
         IN  IF event.start[1] > date THEN 0
             ELSE IF event.end[1] < date THEN rest
             ELSE IF event_start < schedule_end /\ event_end > schedule_start
             THEN time_to_decimal(Min2(schedule_end, event_end))
                  - time_to_decimal(Max2(schedule_start, event_start)) + rest
             ELSE rest

\* get_available_hours: the windows' lengths minus the blocked hours (which
\* may exceed them), in ticks.
get_available_hours(time_map, weekday, date, calendars) ==
    LET schedule == time_map[weekday]
        available_hours ==
            SumSeq([i \in DOMAIN schedule |->
                       hours_to_decimal(schedule[i][2]) - hours_to_decimal(schedule[i][1])])
        blocked_hours ==
            SumSeq([i \in DOMAIN schedule |->
                       SumSeq([c \in DOMAIN calendars |->
                                  CalendarBlocked(calendars[c], date,
                                                  hours_to_time(schedule[i][1]),
                                                  hours_to_time(schedule[i][2]))])])
    IN  available_hours - blocked_hours

\* The vector get_long_range_time_map computes on a cache miss: for each day
\* of the horizon the sum over the names of get_available_hours.
ComputeTimeMap(names, today_weekday, calendars) ==
    [d \in 1..DaysAhead |->
        SumSeq([n \in DOMAIN names |->
                   get_available_hours(time_maps[names[n]],
                                       WeekdayOf(today_weekday, d - 1), d - 1, calendars)])]

\* One name's share of today_used_hours: the windows of today are scanned in
\* order; the window holding the clock adds clock - start and ends the scan,
\* a window before the clock adds end - start.  The clock is H + M/60 while
\* the windows are the raw decimal clock values of the configuration.
RECURSIVE UsedInWindows(_, _)
UsedInWindows(windows, today_time) ==
    IF windows = <<>> THEN 0
    ELSE LET schedule_start == RawHours(Head(windows)[1])
             schedule_end == RawHours(Head(windows)[2])
         IN  IF schedule_start <= today_time /\ today_time <= schedule_end
             THEN today_time - schedule_start
             ELSE IF today_time > schedule_end
             THEN schedule_end - schedule_start + UsedInWindows(Tail(windows), today_time)
             ELSE UsedInWindows(Tail(windows), today_time)

TodayUsedHours(names, today_weekday, clock) ==
    SumSeq([n \in DOMAIN names |->
               UsedInWindows(time_maps[names[n]][today_weekday], time_to_decimal(clock))])

\* get_long_range_time_map: the cache after the call (the key is the joined
\* names) and the pair the call returns.  The returned vector is the cache's
\* own list, so it is named by its key.
CacheAfter(cache, names, today_weekday, calendars) ==
    IF names \in DOMAIN cache THEN cache
    ELSE [k \in DOMAIN cache \cup {names} |->
             IF k = names THEN ComputeTimeMap(names, today_weekday, calendars)
             ELSE cache[k]]

get_long_range_time_map(cache, names, today_weekday, clock, calendars) ==
    [cache |-> CacheAfter(cache, names, today_weekday, calendars),
     key |-> names,
     today_used_hours |-> TodayUsedHours(names, today_weekday, clock)]

\* A time-map name that config["time_maps"] does not hold raises.
KnownNames(names) == \A n \in DOMAIN names : names[n] \in DOMAIN time_maps

\* ------------------------------------------------------------------ inputs

Tasks == 1..NTasks

Days == 0..(DaysAhead - 1)

\* Taskwarrior status to avoid
AVOID_STATUS == {"completed", "deleted", "recurring"}

StatusChoices == {"pending"}

\* task["estimated"]: PT1H, PT2H
EstimatedChoices == {<<"P", "T", "1", "H">>, <<"P", "T", "2", "H">>}

\* task["urgency"], in 1/TicksPerHour units
UrgencyChoices == {8 * TicksPerHour, 10 * TicksPerHour}

\* task["min_block"], in ticks
BlockChoices == {0, TicksPerHour}

\* task["wait"]: absent, or the date of tomorrow
WaitChoices == {{}, {1}}

\* `task _show`: the urgency.uda.estimated.<key>.coefficient lines, in order
CoefficientChoices ==
    { << [key |-> <<"P", "1", "H">>, coefficient |-> 1],
         [key |-> <<"P", "2", "H">>, coefficient |-> 4] >>,
      << [key |-> <<"P", "2", "H">>, coefficient |-> 4],
         [key |-> <<"P", "1", "H">>, coefficient |-> 1] >> }

\* task["due"]: absent
DueChoices == {{}}

\* The task with uuid u as `task export` may describe it.  An optional
\* attribute is a set with at most one element.
TaskChoices(u, blocks, waits, depends) ==
    [id : {u}, uuid : {u}, status : StatusChoices, estimated : EstimatedChoices,
     time_map : TimeMapNames, urgency : UrgencyChoices, min_block : blocks,
     wait : waits, due : DueChoices, depends : {D \in depends : u \notin D}]

\* Taskwarrior refuses circular dependencies.
Acyclic(export) ==
    \E rank \in Permutations(Tasks) :
        \A i \in Tasks : \A u \in export[i].depends : rank[u] < rank[export[i].uuid]

\* `task export`: the tasks in any order.
Exports(blocks, waits, depends) ==
    {e \in [Tasks -> UNION {TaskChoices(u, blocks, waits, depends) : u \in Tasks}] :
        /\ \A i, j \in Tasks : i # j => e[i].uuid # e[j].uuid
        /\ Acyclic(e)
        /\ Cardinality({i \in Tasks : e[i].wait # {}})
           + Cardinality({i \in Tasks : e[i].depends # {}}) <= MaxOptional}

\* The exports the parallel allocator is run on.
ExportChoices == Exports(BlockChoices, WaitChoices, SUBSET Tasks)

\* The exports the sequential allocator is run on: it reads neither min_block
\* nor depends; a wait date is today or tomorrow.
SeqExportChoices == Exports({TicksPerHour}, {{}, {0}, {1}}, {{}})

\* list.sort(key) / sorted(key): a stable sort of the items s in ascending
\* order of their keys, keys[i] being the key of s[i].
RECURSIVE InsertSorted(_, _)
InsertSorted(sorted, x) ==
    IF sorted = <<>> THEN <<x>>
    ELSE IF x[1] < Head(sorted)[1] THEN <<x>> \o sorted
    ELSE <<Head(sorted)>> \o InsertSorted(Tail(sorted), x)

RECURSIVE SortPairs(_)
SortPairs(pairs) ==
    IF pairs = <<>> THEN <<>>
    ELSE InsertSorted(SortPairs(SubSeq(pairs, 1, Len(pairs) - 1)), pairs[Len(pairs)])

StableSort(s, keys) ==
    LET sorted == SortPairs([i \in DOMAIN s |-> <<keys[i], s[i]>>])
    IN  [i \in DOMAIN s |-> sorted[i][2]]

\* get_tasks: the exported tasks sorted by descending urgency.
HasEstimated(task) == task.estimated # <<>>

get_tasks(export) ==
    LET kept == SelectSeq(export, HasEstimated)
    IN  StableSort(kept, [i \in DOMAIN kept |-> 0 - kept[i].urgency])

\* ----------------------------------------------------------------- urgency

\* compute_estimated_urgency: min() over the coefficient keys of the distance
\* between the second character of hours_to_PDTH(remaining_hours) and
\* PDTH_to_hours of the second character of the key; the first key at the
\* least distance wins.  ok = FALSE where Python raises.
compute_estimated_urgency(remaining_hours, coefficients) ==
    LET pdth_value == hours_to_PDTH(remaining_hours)
        target == ParseInt(<<pdth_value[2]>>)
        KeyHours(i) == PDTH_to_hours(<<coefficients[i].key[2]>>)
        Distance(i) == Abs(target.value - KeyHours(i).value)
        closest_match ==
            CHOOSE i \in DOMAIN coefficients :
                \A j \in DOMAIN coefficients :
                    /\ Distance(i) <= Distance(j)
                    /\ j < i => Distance(j) > Distance(i)
    IN  IF \/ coefficients = <<>>
           \/ ~target.ok
           \/ \E i \in DOMAIN coefficients : ~KeyHours(i).ok
        THEN [ok |-> FALSE, value |-> 0]
        ELSE [ok |-> TRUE,
              value |-> coefficients[closest_match].coefficient * remaining_hours]

\* ---------------------------------------------------------------- variables

VARIABLES
    tasks,                  \* get_tasks(): the snapshot, most urgent first
    calendars,              \* get_calendars(config)
    today_weekday,          \* the weekday of datetime.today()
    clock,                  \* datetime.now().time(), in minutes
    urgency_coefficients,   \* get_urgency_coefficients()
    long_range_time_map,    \* the module's cache: key -> vector of the horizon
    task_info,              \* uuid -> info
    info_order,             \* the uuids in the insertion order of task_info
    pc,                     \* the position in check_tasks_parallel
    day_offset,
    total_available_hours,
    day_remaining_hours,
    tasks_remaining,        \* the list the name tasks_remaining is bound to
    walk,                   \* the list object the for loop iterates over
    walk_idx,               \* the position of the for loop in walk
    allocated,
    emit_idx,               \* the position of the emitting loop in info_order
    modifies,               \* the `task <id> modify` invocations issued so far
    day_totals,             \* history: total_available_hours of each day begun
    run,                    \* the number of the invocation in this process
    first_result,           \* history: uuid -> scheduling of the first invocation
    todo,                   \* sequential: todo[i] of tasks[i]
    used_hours,             \* sequential: the hours given away on each day
    seq_i,                  \* sequential: the index of `for i, task`
    seq_offset,             \* sequential: the offset of `for offset`
    task_remaining_hours,   \* sequential: locals of the task at hand
    is_starting,
    start_date,
    end_date,
    scheduling_note,
    warnings,               \* sequential: the tasks printed as late
    passes,                 \* sequential: the passes of `while any(todo)` begun
    raised,                 \* history: the ids of the tasks an exception was raised at
    conversion,             \* the duration conversions of a call made on their own
    call                    \* a helper called on its own: arguments and result

vars ==
    <<tasks, calendars, today_weekday, clock, urgency_coefficients,
      long_range_time_map, task_info, info_order, pc, day_offset,
      total_available_hours, day_remaining_hours, tasks_remaining, walk,
      walk_idx, allocated, emit_idx, modifies, day_totals, run, first_result,
      todo, used_hours, seq_i, seq_offset, task_remaining_hours, is_starting,
      start_date, end_date, scheduling_note, warnings, passes, raised,
      conversion, call>>

\* The variables of check_tasks_sequentially alone.
seq_vars ==
    <<todo, used_hours, seq_i, seq_offset, task_remaining_hours, is_starting,
      start_date, end_date, scheduling_note, warnings, passes>>

\* The variables of check_tasks_parallel alone.
par_vars ==
    <<urgency_coefficients, task_info, info_order, day_offset,
      total_available_hours, day_remaining_hours, tasks_remaining, walk,
      walk_idx, allocated, emit_idx, day_totals>>

run_vars == <<run, first_result, raised>>

inputs == <<tasks, calendars, today_weekday, clock, urgency_coefficients>>

EmptyMap == [x \in {} |-> 0]

\* A result not computed yet.
NotYet == [ok |-> FALSE, value |-> 0]

\* No helper is called on its own while an allocator runs.
NoCall == [fn |-> "none"]

\* No conversion is called on its own while an allocator runs.
NoConversion ==
    [duration_str |-> <<>>, hours |-> NotYet, pdth |-> <<>>, back |-> NotYet]

\* info["task_time_map"]: the cache's list for the task's key (shared by all
\* the tasks that name the same time maps).
task_time_map(info) == long_range_time_map[info.key]

MapPut(f, k, v) == [x \in DOMAIN f \cup {k} |-> IF x = k THEN v ELSE f[x]]

\* The state of the process before the allocator is called, but for the
\* inputs, the position and the module's cache.
Idle ==
    /\ raised = {}
    /\ run = 1
    /\ first_result = EmptyMap
    /\ modifies = <<>>
    /\ todo = <<>>
    /\ used_hours = <<>>
    /\ seq_i = 0
    /\ seq_offset = 0
    /\ task_remaining_hours = 0
    /\ is_starting = FALSE
    /\ start_date = {}
    /\ end_date = {}
    /\ scheduling_note = <<>>
    /\ warnings = <<>>
    /\ passes = 0
    /\ task_info = EmptyMap
    /\ info_order = <<>>
    /\ day_offset = 0
    /\ total_available_hours = 0
    /\ day_remaining_hours = 0
    /\ tasks_remaining = <<>>
    /\ walk = <<>>
    /\ walk_idx = 0
    /\ allocated = FALSE
    /\ emit_idx = 0
    /\ day_totals = EmptyMap

\* The same in a process that has just imported the module.
Fresh == long_range_time_map = EmptyMap /\ Idle

\* main() with algorithm = "parallel": check_tasks_parallel is entered, on
\* one of the given exports, calendars and wall clocks.
ParallelStart(exports, cals, clocks) ==
    /\ \E export \in exports : tasks = get_tasks(export)
    /\ calendars \in cals
    /\ today_weekday \in TodayChoices
    /\ clock \in clocks
    /\ urgency_coefficients \in CoefficientChoices
    /\ pc = "init"
    /\ conversion = NoConversion
    /\ call = NoCall
    /\ Fresh

Init == ParallelStart(ExportChoices, CalendarChoices, ClockChoices)

\* ------------------------------------------------ parallel: initialization

\* One pass of the loop that builds task_info, on the accumulated
\* [ok, raised, cache, info, order].
InitStep(acc, task) ==
    IF ~acc.ok THEN acc
    ELSE IF task.status \in AVOID_STATUS THEN acc
    ELSE IF task.estimated = <<>> \/ task.time_map = <<>> THEN acc
    ELSE LET estimated_hours == PDTH_to_hours(task.estimated)
             got == get_long_range_time_map(acc.cache, task.time_map,
                                            today_weekday, clock, calendars)
             eu == compute_estimated_urgency(estimated_hours.value * TicksPerHour,
                                             urgency_coefficients)
         IN  IF ~estimated_hours.ok \/ ~KnownNames(task.time_map)
             THEN [acc EXCEPT !.ok = FALSE, !.raised = {task.id}]
             ELSE IF ~eu.ok
             THEN [acc EXCEPT !.ok = FALSE, !.cache = got.cache, !.raised = {task.id}]
             ELSE [ok |-> TRUE,
                   raised |-> {},
                   cache |-> got.cache,
                   info |-> MapPut(acc.info, task.uuid,
                               [task |-> task,
                                remaining_hours |-> estimated_hours.value * TicksPerHour,
                                key |-> got.key,
                                today_used_hours |-> got.today_used_hours,
                                scheduling |-> EmptyMap,
                                urgency |-> task.urgency,
                                estimated_urgency |-> eu.value,
                                min_block |-> task.min_block]),
                   order |-> IF task.uuid \in DOMAIN acc.info THEN acc.order
                             ELSE Append(acc.order, task.uuid)]

RECURSIVE InitLoop(_, _)
InitLoop(acc, i) ==
    IF i > Len(tasks) THEN acc ELSE InitLoop(InitStep(acc, tasks[i]), i + 1)

\* The day loop moves on to day d, or to the emitting loop after the horizon.
GoToDay(d) ==
    /\ day_offset' = d
    /\ pc' = IF d < DaysAhead THEN "day" ELSE "emit"
    /\ emit_idx' = IF d < DaysAhead THEN emit_idx ELSE 1

InitializeTaskInfo ==
    /\ pc = "init"
    /\ LET r == InitLoop([ok |-> TRUE, raised |-> {}, cache |-> long_range_time_map,
                          info |-> EmptyMap, order |-> <<>>], 1)
       IN  /\ long_range_time_map' = r.cache
           /\ raised' = raised \cup r.raised
           /\ IF r.ok
              THEN /\ task_info' = r.info
                   /\ info_order' = r.order
                   /\ GoToDay(0)
              ELSE /\ pc' = "error"
                   /\ UNCHANGED <<task_info, info_order, day_offset, emit_idx>>
    /\ UNCHANGED <<inputs, conversion, call, seq_vars, run, first_result, total_available_hours, day_remaining_hours,
                   tasks_remaining, walk, walk_idx, allocated, modifies, day_totals>>

\* -------------------------------------------------- parallel: the day loop

\* [info for info in task_info.values()]: the uuids in dict order.
InfoValues == info_order

\* The start of one pass of the day loop: the day's budget is the greatest
\* task_time_map[day_offset] over the tasks (less today_used_hours on day 0);
\* a day without budget is skipped, else the candidates are listed.
StartDay ==
    /\ pc = "day"
    /\ LET total_hours_list ==
               [i \in DOMAIN InfoValues |->
                   LET info == task_info[InfoValues[i]]
                   IN  IF day_offset = 0
                       THEN task_time_map(info)[day_offset + 1] - info.today_used_hours
                       ELSE task_time_map(info)[day_offset + 1]]
           total == IF total_hours_list # <<>> THEN MaxSeq(total_hours_list) ELSE 0
       IN  /\ total_available_hours' = total
           /\ day_totals' = MapPut(day_totals, day_offset, total)
           /\ IF total <= 0
              THEN /\ GoToDay(day_offset + 1)
                   /\ UNCHANGED <<day_remaining_hours, tasks_remaining>>
              ELSE /\ day_remaining_hours' = total
                   /\ tasks_remaining' =
                          SelectSeq(InfoValues,
                                    LAMBDA u : /\ task_info[u].remaining_hours > 0
                                               /\ task_time_map(task_info[u])[day_offset + 1] > 0)
                   /\ pc' = "while"
                   /\ UNCHANGED <<day_offset, emit_idx>>
    /\ UNCHANGED <<inputs, conversion, call, seq_vars, run_vars, long_range_time_map, task_info, info_order, walk,
                   walk_idx, allocated, modifies>>

\* A slip: the urgency is set to the new estimated urgency.
RecomputedInFull(info) ==
    LET eu == compute_estimated_urgency(info.remaining_hours, urgency_coefficients)
    IN  [info EXCEPT !.estimated_urgency = eu.value, !.urgency = eu.value]

\* The urgencies the pass recomputes for the tasks of tasks_remaining:
\* urgency - old estimated urgency + new estimated urgency.
Recomputed(info) ==
    LET eu == compute_estimated_urgency(info.remaining_hours, urgency_coefficients)
    IN  [info EXCEPT !.estimated_urgency = eu.value,
                     !.urgency = info.urgency - info.estimated_urgency + eu.value]

RecomputeOk ==
    \A i \in DOMAIN tasks_remaining :
        compute_estimated_urgency(task_info[tasks_remaining[i]].remaining_hours,
                                  urgency_coefficients).ok

\* The first task of tasks_remaining at which the recomputation raises.
FirstRaising ==
    LET i == CHOOSE j \in DOMAIN tasks_remaining :
                 /\ ~compute_estimated_urgency(task_info[tasks_remaining[j]].remaining_hours,
                                               urgency_coefficients).ok
                 /\ \A k \in 1..(j - 1) :
                        compute_estimated_urgency(task_info[tasks_remaining[k]].remaining_hours,
                                                  urgency_coefficients).ok
    IN  tasks_remaining[i]

\* tasks_remaining.sort(key=lambda x: -x["urgency"])
SortByUrgency(list, info) ==
    StableSort(list, [i \in DOMAIN list |-> 0 - info[list[i]].urgency])

\* One pass of the while loop up to the for loop: the urgencies of the
\* candidates are recomputed and the candidates sorted.
SortPass ==
    /\ pc = "while"
    /\ day_remaining_hours > 0 /\ tasks_remaining # <<>>
    /\ IF RecomputeOk
       THEN /\ task_info' = [u \in DOMAIN task_info |->
                                IF u \in Range(tasks_remaining)
                                THEN Recomputed(task_info[u]) ELSE task_info[u]]
            /\ tasks_remaining' = SortByUrgency(tasks_remaining, task_info')
            /\ walk' = tasks_remaining'
            /\ walk_idx' = 1
            /\ allocated' = FALSE
            /\ pc' = "for"
            /\ UNCHANGED raised
       ELSE /\ pc' = "error"
            /\ raised' = raised \cup {task_info[FirstRaising].task.id}
            /\ UNCHANGED <<task_info, tasks_remaining, walk, walk_idx, allocated>>
    /\ UNCHANGED <<inputs, conversion, call, seq_vars, run, first_result, long_range_time_map, info_order, day_offset,
                   total_available_hours, day_remaining_hours, emit_idx, modifies,
                   day_totals>>

\* The while loop ends: the budget is spent or no candidate is left.
EndDay ==
    /\ pc = "while"
    /\ ~(day_remaining_hours > 0 /\ tasks_remaining # <<>>)
    /\ GoToDay(day_offset + 1)
    /\ UNCHANGED <<inputs, conversion, call, seq_vars, run_vars, long_range_time_map, task_info, info_order,
                   total_available_hours, day_remaining_hours, tasks_remaining,
                   walk, walk_idx, allocated, modifies, day_totals>>

\* A slip: the task's remaining hours are left out of the minimum.
UncutWithoutRemaining(info) ==
    Min2(task_time_map(info)[day_offset + 1], day_remaining_hours)

\* A slip: the day's remaining budget is left out of the minimum.
UncutWithoutDayBudget(info) ==
    Min2(info.remaining_hours, task_time_map(info)[day_offset + 1])

\* The amount before the cut: min(remaining, daily available, day remaining).
Uncut(info) ==
    Min2(info.remaining_hours,
         Min2(task_time_map(info)[day_offset + 1], day_remaining_hours))

\* A slip: the amount is min_block whatever the amount before the cut.
AllocationAlwaysBlock(info) == info.min_block

\* A slip: the amount is not cut down to min_block.
AllocationUncapped(info) == Uncut(info)

\* The amount the for loop allocates to info: min(remaining, daily available,
\* day remaining), cut down to min_block when greater.
Allocation(info) ==
    IF Uncut(info) > info.min_block THEN info.min_block ELSE Uncut(info)

\* A slip: the date's hours are overwritten, not added to.
RecordedOverwritten(scheduling, date, allocation) ==
    MapPut(scheduling, date, allocation)

\* info["scheduling"][date_str] += allocation, the date entered with 0 first.
Recorded(scheduling, date, allocation) ==
    MapPut(scheduling, date,
           (IF date \in DOMAIN scheduling THEN scheduling[date] ELSE 0) + allocation)

\* One pass of the for loop.  The task at hand is passed over when nothing is
\* available to it on this day or the amount before the cut is not positive.
\* Else it is allocated, dropped from tasks_remaining when it is done or out
\* of time today (the loop goes on over the list it started with), and the
\* loop breaks when the day's budget is spent.
ForStep ==
    /\ pc = "for"
    /\ walk_idx <= Len(walk)
    /\ LET uuid == walk[walk_idx]
           info == task_info[uuid]
           day == day_offset + 1
           allocation == Allocation(info)
       IN  IF task_time_map(info)[day] <= 0 \/ Uncut(info) <= 0
           THEN /\ walk_idx' = walk_idx + 1
                /\ UNCHANGED <<long_range_time_map, task_info, pc,
                               day_remaining_hours, tasks_remaining, allocated>>
           ELSE /\ task_info' =
                       [task_info EXCEPT
                           ![uuid].remaining_hours = @ - allocation,
                           ![uuid].scheduling = Recorded(@, day_offset, allocation)]
                /\ day_remaining_hours' = day_remaining_hours - allocation
                /\ long_range_time_map' =
                       [long_range_time_map EXCEPT ![info.key][day] = @ - allocation]
                /\ allocated' = TRUE
                /\ tasks_remaining' =
                       IF \/ task_info'[uuid].remaining_hours <= 0
                          \/ long_range_time_map'[info.key][day] <= 0
                       THEN SelectSeq(tasks_remaining, LAMBDA u : u # uuid)
                       ELSE tasks_remaining
                /\ IF day_remaining_hours' <= 0
                   THEN pc' = "while" /\ walk_idx' = walk_idx
                   ELSE pc' = "for" /\ walk_idx' = walk_idx + 1
    /\ UNCHANGED <<inputs, conversion, call, seq_vars, run_vars, info_order, day_offset, total_available_hours, walk,
                   emit_idx, modifies, day_totals>>

\* The for loop is exhausted: the while loop goes on if the pass allocated,
\* and breaks if it did not.
EndPass ==
    /\ pc = "for"
    /\ walk_idx > Len(walk)
    /\ IF allocated
       THEN pc' = "while" /\ UNCHANGED <<day_offset, emit_idx>>
       ELSE GoToDay(day_offset + 1)
    /\ UNCHANGED <<inputs, conversion, call, seq_vars, run_vars, long_range_time_map, task_info, info_order,
                   total_available_hours, day_remaining_hours, tasks_remaining,
                   walk, walk_idx, allocated, modifies, day_totals>>

\* --------------------------------------------------- parallel: the emitter

\* A slip: the hours are cut to two decimals, not rounded.
Format2fTruncated(hours) ==
    LET hundredths == (hours * 100) \div TicksPerHour
    IN  IntToStr(hundredths \div 100)
        \o <<".", Digits[((hundredths % 100) \div 10) + 1], Digits[(hundredths % 10) + 1]>>

\* f"{hours:.2f}": the hours rounded to two decimals, as text.
Format2f(hours) ==
    LET hundredths == (2 * hours * 100 + TicksPerHour) \div (2 * TicksPerHour)
    IN  IntToStr(hundredths \div 100)
        \o <<".", Digits[((hundredths % 100) \div 10) + 1], Digits[(hundredths % 10) + 1]>>

\* The scheduling note: one line "<date>: <hours> hours" per scheduled date
\* in sorted order; strip() removes the last line's newline.
SchedulingNote(scheduling) ==
    LET scheduled_dates == SortedSeq(DOMAIN scheduling)
    IN  [i \in DOMAIN scheduled_dates |->
            [date |-> scheduled_dates[i],
             hours |-> Format2f(scheduling[scheduled_dates[i]])]]

\* One pass of the emitting loop: a task with scheduled dates is modified in
\* Taskwarrior, a task without is passed over.
EmitTask ==
    /\ pc = "emit"
    /\ emit_idx <= Len(info_order)
    /\ LET info == task_info[info_order[emit_idx]]
           scheduled_dates == SortedSeq(DOMAIN info.scheduling)
       IN  IF scheduled_dates = <<>>
           THEN UNCHANGED modifies
           ELSE modifies' =
                    Append(modifies,
                           [id |-> info.task.id,
                            scheduled |-> scheduled_dates[1],
                            completion_date |-> scheduled_dates[Len(scheduled_dates)],
                            scheduling |-> SchedulingNote(info.scheduling)])
    /\ emit_idx' = emit_idx + 1
    /\ UNCHANGED <<inputs, conversion, call, seq_vars, run_vars, long_range_time_map, task_info, info_order, pc,
                   day_offset, total_available_hours, day_remaining_hours,
                   tasks_remaining, walk, walk_idx, allocated, day_totals>>

\* check_tasks_parallel returns.
Finish ==
    /\ pc = "emit"
    /\ emit_idx > Len(info_order)
    /\ pc' = "done"
    /\ UNCHANGED <<inputs, conversion, call, seq_vars, run_vars, long_range_time_map, task_info, info_order,
                   day_offset, total_available_hours, day_remaining_hours,
                   tasks_remaining, walk, walk_idx, allocated, emit_idx, modifies,
                   day_totals>>

Next ==
    \/ InitializeTaskInfo
    \/ StartDay
    \/ SortPass
    \/ EndDay
    \/ ForStep
    \/ EndPass
    \/ EmitTask
    \/ Finish

Spec == Init /\ [][Next]_vars

\* ------------------------------------------------- the sequential allocator

\* The least amount of hours the sequential allocator admits: 0.01.
Epsilon == 3

\* main() with algorithm = "sequential": check_tasks_sequentially is entered,
\* on one of the given exports, calendars and wall clocks, and has set todo
\* and used_hours.
SequentialStart(exports, cals, clocks) ==
    /\ \E export \in exports : tasks = get_tasks(export)
    /\ calendars \in cals
    /\ today_weekday \in TodayChoices
    /\ clock \in clocks
    /\ urgency_coefficients = <<>>
    /\ pc = "seq_while"
    /\ conversion = NoConversion
    /\ call = NoCall
    /\ long_range_time_map = EmptyMap
    /\ raised = {}
    /\ run = 1
    /\ first_result = EmptyMap
    /\ modifies = <<>>
    /\ todo = [i \in DOMAIN tasks |-> tasks[i].status \notin AVOID_STATUS]
    /\ used_hours = [d \in 1..(DaysAhead + 1) |-> 0]
    /\ seq_i = 0
    /\ seq_offset = 0
    /\ task_remaining_hours = 0
    /\ is_starting = FALSE
    /\ start_date = {}
    /\ end_date = {}
    /\ scheduling_note = <<>>
    /\ warnings = <<>>
    /\ passes = 0
    /\ task_info = EmptyMap
    /\ info_order = <<>>
    /\ day_offset = 0
    /\ total_available_hours = 0
    /\ day_remaining_hours = 0
    /\ tasks_remaining = <<>>
    /\ walk = <<>>
    /\ walk_idx = 0
    /\ allocated = FALSE
    /\ emit_idx = 0
    /\ day_totals = EmptyMap

InitSeq == SequentialStart(SeqExportChoices, CalendarChoices, ClockChoices)

\* `while any(todo)` begins a pass over the tasks.
SeqPass ==
    /\ pc = "seq_while"
    /\ \E i \in DOMAIN todo : todo[i]
    /\ passes < MaxPasses
    /\ passes' = passes + 1
    /\ seq_i' = 1
    /\ pc' = "seq_task"
    /\ UNCHANGED <<inputs, conversion, call, par_vars, run_vars, long_range_time_map, modifies, todo,
                   used_hours, seq_offset, task_remaining_hours, is_starting,
                   start_date, end_date, scheduling_note, warnings>>

\* `while any(todo)` ends: check_tasks_sequentially returns.
SeqDone ==
    /\ pc = "seq_while"
    /\ ~\E i \in DOMAIN todo : todo[i]
    /\ pc' = "done"
    /\ UNCHANGED <<inputs, conversion, call, par_vars, run_vars, seq_vars, long_range_time_map, modifies>>

\* A slip: the task is left to do.
StruckNot(list, i) == list

\* todo[i] = False
Struck(list, i) == [list EXCEPT ![i] = FALSE]

\* One pass of `for i, task` up to the loop over the days: a task that is
\* done is passed over; a task without estimated or time_map is struck off;
\* else its time map is fetched, today's used hours are added to
\* used_hours[0] and its locals are set.
SeqTask ==
    /\ pc = "seq_task"
    /\ seq_i <= Len(tasks)
    /\ LET task == tasks[seq_i]
           estimated_hours == PDTH_to_hours(task.estimated)
           got == get_long_range_time_map(long_range_time_map, task.time_map,
                                          today_weekday, clock, calendars)
       IN  IF ~todo[seq_i]
           THEN /\ seq_i' = seq_i + 1
                /\ UNCHANGED <<pc, todo, long_range_time_map, used_hours, seq_offset,
                               task_remaining_hours, is_starting, start_date,
                               end_date, scheduling_note, raised>>
           ELSE IF task.estimated # <<>> /\ ~estimated_hours.ok
           THEN /\ pc' = "error"
                /\ raised' = raised \cup {task.id}
                /\ UNCHANGED <<todo, seq_i, long_range_time_map, used_hours,
                               seq_offset, task_remaining_hours, is_starting,
                               start_date, end_date, scheduling_note>>
           ELSE IF task.estimated = <<>> \/ task.time_map = <<>>
           THEN /\ todo' = Struck(todo, seq_i)
                /\ seq_i' = seq_i + 1
                /\ UNCHANGED <<pc, long_range_time_map, used_hours, seq_offset,
                               task_remaining_hours, is_starting, start_date,
                               end_date, scheduling_note, raised>>
           ELSE IF ~KnownNames(task.time_map)
           THEN /\ pc' = "error"
                /\ raised' = raised \cup {task.id}
                /\ UNCHANGED <<todo, seq_i, long_range_time_map, used_hours,
                               seq_offset, task_remaining_hours, is_starting,
                               start_date, end_date, scheduling_note>>
           ELSE /\ task_remaining_hours' = estimated_hours.value * TicksPerHour
                /\ UNCHANGED raised
                /\ long_range_time_map' = got.cache
                /\ used_hours' = [used_hours EXCEPT ![1] = @ + got.today_used_hours]
                /\ is_starting' = TRUE
                /\ scheduling_note' = <<>>
                /\ start_date' = {}
                /\ end_date' = {}
                /\ seq_offset' = 0
                /\ pc' = "seq_day"
                /\ UNCHANGED <<todo, seq_i>>
    /\ UNCHANGED <<inputs, conversion, call, par_vars, run, first_result, modifies, warnings, passes>>

\* `for i, task` is exhausted: back to `while any(todo)`.
SeqTaskEnd ==
    /\ pc = "seq_task"
    /\ seq_i > Len(tasks)
    /\ pc' = "seq_while"
    /\ UNCHANGED <<inputs, conversion, call, par_vars, run_vars, seq_vars, long_range_time_map, modifies>>

\* A slip: the wait date is not looked at.
WaitsNever(wait, current_date) == FALSE

\* A task waits on current_date when it has a wait date and current_date is
\* not after it.
Waits(wait, current_date) == \E w \in wait : current_date <= w

\* schedule_task_on_day on the locals of the task at hand: what it returns,
\* and used_hours as it leaves it.
schedule_task_on_day(starting, offset, start, end, remaining, time_map, used, wait, note) ==
    LET diff == time_map[offset + 1] - used[offset + 1]
        employable_hours == IF Epsilon > diff /\ diff > 0 THEN Epsilon ELSE diff
        current_date == offset
        unchanged == [start_date |-> start, end_date |-> end,
                      task_remaining_hours |-> remaining, is_starting |-> starting,
                      scheduling_note |-> note, used_hours |-> used]
        started == IF starting THEN {current_date} ELSE start
    IN  IF Waits(wait, current_date) THEN unchanged
        ELSE IF remaining <= employable_hours + Epsilon
        THEN [start_date |-> started,
              end_date |-> {current_date},
              task_remaining_hours |-> 0,
              is_starting |-> FALSE,
              scheduling_note |->
                  Append(note, [date |-> current_date, hours |-> Format2f(remaining)]),
              used_hours |-> [used EXCEPT ![offset + 1] = @ + remaining]]
        ELSE [start_date |-> started,
              end_date |-> end,
              task_remaining_hours |-> remaining - employable_hours,
              is_starting |-> FALSE,
              scheduling_note |->
                  Append(note, [date |-> current_date,
                                hours |-> Format2f(employable_hours)]),
              used_hours |-> [used EXCEPT ![offset + 1] = @ + employable_hours]]

\* A slip: a task ending on its due date is printed as late too.
LateOrEqual(due_date, end) == \E d \in due_date : \E e \in end : e >= d

\* mark_end_date prints the task as late when it has a due date before end.
Late(due_date, end) == \E d \in due_date : \E e \in end : e > d

\* One pass of `for offset`: a day with hours left for the task is scheduled
\* on; once the task has an end date it is struck off, modified in
\* Taskwarrior (and printed when late), and the loop breaks.
SeqDay ==
    /\ pc = "seq_day"
    /\ seq_offset < DaysAhead
    /\ LET task == tasks[seq_i]
           time_map == long_range_time_map[task.time_map]
           r == IF time_map[seq_offset + 1] > used_hours[seq_offset + 1]
                THEN schedule_task_on_day(is_starting, seq_offset, start_date, end_date,
                                          task_remaining_hours, time_map, used_hours,
                                          task.wait, scheduling_note)
                ELSE [start_date |-> start_date, end_date |-> end_date,
                      task_remaining_hours |-> task_remaining_hours,
                      is_starting |-> is_starting,
                      scheduling_note |-> scheduling_note, used_hours |-> used_hours]
       IN  /\ start_date' = r.start_date
           /\ end_date' = r.end_date
           /\ task_remaining_hours' = r.task_remaining_hours
           /\ is_starting' = r.is_starting
           /\ scheduling_note' = r.scheduling_note
           /\ used_hours' = r.used_hours
           /\ IF r.end_date # {}
              THEN /\ todo' = Struck(todo, seq_i)
                   /\ modifies' =
                          Append(modifies,
                                 [id |-> task.id,
                                  scheduled |-> CHOOSE d \in r.start_date : TRUE,
                                  completion_date |-> CHOOSE d \in r.end_date : TRUE,
                                  scheduling |-> r.scheduling_note])
                   /\ warnings' = IF Late(task.due, r.end_date)
                                  THEN Append(warnings, task.id) ELSE warnings
                   /\ seq_i' = seq_i + 1
                   /\ pc' = "seq_task"
                   /\ UNCHANGED seq_offset
              ELSE /\ seq_offset' = seq_offset + 1
                   /\ UNCHANGED <<todo, modifies, warnings, seq_i, pc>>
    /\ UNCHANGED <<inputs, conversion, call, par_vars, run_vars, long_range_time_map, passes>>

\* `for offset` is exhausted without an end date: the task stays to do.
SeqDaysEnd ==
    /\ pc = "seq_day"
    /\ seq_offset >= DaysAhead
    /\ seq_i' = seq_i + 1
    /\ pc' = "seq_task"
    /\ UNCHANGED <<inputs, conversion, call, par_vars, run_vars, long_range_time_map, modifies, todo,
                   used_hours, seq_offset, task_remaining_hours, is_starting,
                   start_date, end_date, scheduling_note, warnings, passes>>

NextSeq ==
    \/ SeqPass
    \/ SeqDone
    \/ SeqTask
    \/ SeqTaskEnd
    \/ SeqDay
    \/ SeqDaysEnd

SpecSeq == InitSeq /\ [][NextSeq]_vars

\* ------------------------------------------------------ a second invocation

\* check_tasks_parallel is called again in the same process with the same
\* inputs and wall clock: the module's cache is what the first call left.
Rerun ==
    /\ pc = "done"
    /\ run = 1
    /\ run' = 2
    /\ first_result' = [u \in DOMAIN task_info |-> task_info[u].scheduling]
    /\ pc' = "init"
    /\ task_info' = EmptyMap
    /\ info_order' = <<>>
    /\ day_offset' = 0
    /\ total_available_hours' = 0
    /\ day_remaining_hours' = 0
    /\ tasks_remaining' = <<>>
    /\ walk' = <<>>
    /\ walk_idx' = 0
    /\ allocated' = FALSE
    /\ emit_idx' = 0
    /\ day_totals' = EmptyMap
    /\ UNCHANGED <<inputs, conversion, call, seq_vars, long_range_time_map, modifies, raised>>

NextRerun == Next \/ Rerun

SpecRerun == Init /\ [][NextRerun]_vars

\* ------------------------------------------------------- either allocator

\* main(): config["scheduler"]["algorithm"] selects the allocator.
InitEither == Init \/ InitSeq

NextEither == Next \/ NextSeq

SpecEither == InitEither /\ [][NextEither]_vars

\* ------------------------------------------- tasks of every description

\* A task as `task export` may describe it: completed or pending; with or
\* without estimated, written PT2H or in the hours-only form P2H; with or
\* without time_map, naming a time map of the configuration or one it does
\* not hold; with or without a due date, today or tomorrow.
WideTaskChoices(u) ==
    [id : {u}, uuid : {u}, status : {"pending", "completed"},
     estimated : {<<>>, <<"P", "T", "2", "H">>, <<"P", "2", "H">>},
     time_map : {<<>>, <<"work">>, <<"nowhere">>},
     urgency : UrgencyChoices, min_block : {TicksPerHour},
     wait : {{}}, due : {{}, {0}, {1}}, depends : {{}}]

WideExportChoices ==
    {e \in [Tasks -> UNION {WideTaskChoices(u) : u \in Tasks}] :
        \A i, j \in Tasks : i # j => e[i].uuid # e[j].uuid}

\* Either allocator on such tasks, on a Monday at 08:00 without calendars.
InitWide ==
    \/ ParallelStart(WideExportChoices, {<<>>}, {480})
    \/ SequentialStart(WideExportChoices, {<<>>}, {480})

SpecWide == InitWide /\ [][NextEither]_vars

\* ------------------------------------------------ the duration conversions

\* The day fields, the hour fields and the whole numbers of hours the
\* conversions are called on.
MaxDayField == 2

MaxHourField == 25

MaxWholeHours == 50

DayFields == 0..MaxDayField

HourFields == 0..MaxHourField

\* f"P{d}DT{h}H"
LongForm(d, h) == <<"P">> \o IntToStr(d) \o <<"D", "T">> \o IntToStr(h) \o <<"H">>

\* f"P{d}D"
DaysForm(d) == <<"P">> \o IntToStr(d) \o <<"D">>

\* f"PT{h}H"
HoursForm(h) == <<"P", "T">> \o IntToStr(h) \o <<"H">>

\* f"P{n}H", the hours-only form of the fixtures (P2H, P4H).
BareHoursForm(n) == <<"P">> \o IntToStr(n) \o <<"H">>

\* The strings of shape P{days}DT{hours}H whose day part and T{hours}H part
\* are each optional.
WellFormed ==
    {LongForm(d, h) : d \in DayFields, h \in HourFields}
        \cup {DaysForm(d) : d \in DayFields}
        \cup {HoursForm(h) : h \in HourFields}

DurationChoices == WellFormed \cup {BareHoursForm(n) : n \in HourFields}

\* A conversion is called on its own: PDTH_to_hours on a string, to be
\* followed by hours_to_PDTH on its result, or hours_to_PDTH on a whole
\* number of hours, to be followed by PDTH_to_hours on its result.
InitConversion ==
    /\ tasks = <<>>
    /\ calendars = <<>>
    /\ today_weekday \in TodayChoices
    /\ clock = 480
    /\ urgency_coefficients = <<>>
    /\ call = NoCall
    /\ Fresh
    /\ \/ /\ pc = "parse"
          /\ \E s \in DurationChoices :
                conversion = [NoConversion EXCEPT !.duration_str = s]
       \/ /\ pc = "format"
          /\ \E n \in 0..MaxWholeHours :
                conversion = [NoConversion EXCEPT !.hours = [ok |-> TRUE, value |-> n]]

alloc_vars ==
    <<inputs, par_vars, seq_vars, run_vars, long_range_time_map, modifies>>

\* PDTH_to_hours(duration_str)
Parse ==
    /\ pc = "parse"
    /\ LET hours == PDTH_to_hours(conversion.duration_str)
       IN  /\ conversion' = [conversion EXCEPT !.hours = hours]
           /\ pc' = IF hours.ok THEN "format_back" ELSE "conversion_error"
    /\ UNCHANGED <<alloc_vars, call>>

\* hours_to_PDTH of the hours PDTH_to_hours returned
FormatBack ==
    /\ pc = "format_back"
    /\ conversion' =
          [conversion EXCEPT
              !.pdth = hours_to_PDTH(conversion.hours.value * TicksPerHour)]
    /\ pc' = "converted"
    /\ UNCHANGED <<alloc_vars, call>>

\* hours_to_PDTH(hours)
Format ==
    /\ pc = "format"
    /\ conversion' =
          [conversion EXCEPT
              !.pdth = hours_to_PDTH(conversion.hours.value * TicksPerHour)]
    /\ pc' = "parse_back"
    /\ UNCHANGED <<alloc_vars, call>>

\* PDTH_to_hours of the string hours_to_PDTH returned
ParseBack ==
    /\ pc = "parse_back"
    /\ LET back == PDTH_to_hours(conversion.pdth)
       IN  /\ conversion' = [conversion EXCEPT !.back = back]
           /\ pc' = IF back.ok THEN "converted" ELSE "conversion_error"
    /\ UNCHANGED <<alloc_vars, call>>

NextConversion == Parse \/ FormatBack \/ Format \/ ParseBack

SpecConversion == InitConversion /\ [][NextConversion]_vars

\* ------------------------------------------- helpers called on their own

\* The dates get_available_hours is called on: Monday to Thursday.
MaxCallDate == 3

CallDates == 0..MaxCallDate

\* The events of the calendars: within a working window, over two windows,
\* from an evening to the end of the next day, over several days, and an
\* all-day event of Tuesday, ending at midnight or at 23:59.
CallEvents ==
    {Event(0, 570, 0, 600), Event(1, 570, 1, 630), Event(0, 1320, 1, 1439),
     Event(0, 600, 2, 600), Event(1, 0, 2, 0), Event(1, 0, 1, 1439)}

\* calendar.sort(key=lambda e: e["start"])
SortedByStart(calendar) ==
    \A i, j \in DOMAIN calendar :
        i < j => \/ calendar[i].start[1] < calendar[j].start[1]
                 \/ /\ calendar[i].start[1] = calendar[j].start[1]
                    /\ calendar[i].start[2] <= calendar[j].start[2]

MaxEvents == 2

MaxCalendars == 2

CallCalendar ==
    {c \in UNION {[1..n -> CallEvents] : n \in 0..MaxEvents} : SortedByStart(c)}

CallCalendarChoices == UNION {[1..n -> CallCalendar] : n \in 0..MaxCalendars}

\* get_available_hours(time_map, date, calendars) is about to be called.
AvailableHoursCall ==
    /\ calendars \in CallCalendarChoices
    /\ clock = 480
    /\ urgency_coefficients = <<>>
    /\ long_range_time_map = EmptyMap
    /\ \E name \in DOMAIN time_maps, date \in CallDates :
          call = [fn |-> "get_available_hours", time_map |-> name, date |-> date,
                  returned |-> FALSE, result |-> 0]

\* The coefficient tables compute_estimated_urgency is called on: the lines
\* urgency.uda.estimated.<key>.coefficient for some of the keys P1H, P2H and
\* P3H, in any order.
CallCoefficients ==
    {[key |-> BareHoursForm(1), coefficient |-> 5],
     [key |-> BareHoursForm(2), coefficient |-> 8],
     [key |-> BareHoursForm(3), coefficient |-> 10]}

CallTables ==
    {t \in UNION {[1..n -> CallCoefficients] : n \in 1..3} :
        \A i, j \in DOMAIN t : i # j => t[i].key # t[j].key}

\* The remaining hours it is called on, in ticks: 1, 1.2, 2 and 3 hours.
CallRemainingHours == {300, 360, 600, 900}

\* compute_estimated_urgency(remaining_hours, coefficients) is about to be
\* called.
EstimatedUrgencyCall ==
    /\ calendars = <<>>
    /\ clock = 480
    /\ urgency_coefficients \in CallTables
    /\ long_range_time_map = EmptyMap
    /\ \E r \in CallRemainingHours :
          call = [fn |-> "compute_estimated_urgency", remaining_hours |-> r,
                  returned |-> FALSE, result |-> 0]

\* The wall clocks get_long_range_time_map is called at, in minutes: 08:00,
\* 09:15, 09:45, 10:20, 10:45 and 12:00.
CallClocks == {480, 555, 585, 620, 645, 720}

\* The calendars it is called with: none, or two calendars holding the same
\* event, of today 09:00-10:30 or of tomorrow 09:00-11:30.
LongRangeCalendars ==
    { <<>>,
      << <<Event(0, 540, 0, 630)>>, <<Event(0, 540, 0, 630)>> >>,
      << <<Event(1, 540, 1, 690)>>, <<Event(1, 540, 1, 690)>> >> }

\* The module's cache at the call: empty, or holding for the key the vector
\* an earlier call has left and the allocator has drawn on.
CachedBefore(names) == {EmptyMap, [k \in {names} |-> [d \in 1..DaysAhead |-> 0]]}

\* get_long_range_time_map(time_maps, time_map_names, days_ahead, calendars)
\* is about to be called.
LongRangeTimeMapCall ==
    /\ calendars \in LongRangeCalendars
    /\ clock \in CallClocks
    /\ urgency_coefficients = <<>>
    /\ \E names \in TimeMapNames \cup {<<"home">>} :
          /\ long_range_time_map \in CachedBefore(names)
          /\ call = [fn |-> "get_long_range_time_map", time_map_names |-> names,
                     hit |-> names \in DOMAIN long_range_time_map,
                     returned |-> FALSE, result |-> 0]

InitCalls ==
    /\ tasks = <<>>
    /\ today_weekday \in TodayChoices
    /\ conversion = NoConversion
    /\ Idle
    /\ pc = "call"
    /\ \/ AvailableHoursCall
       \/ EstimatedUrgencyCall
       \/ LongRangeTimeMapCall

GetAvailableHours ==
    /\ pc = "call"
    /\ call.fn = "get_available_hours"
    /\ call' = [call EXCEPT
                   !.returned = TRUE,
                   !.result = get_available_hours(time_maps[call.time_map],
                                                  WeekdayOf(today_weekday, call.date),
                                                  call.date, calendars)]
    /\ pc' = "returned"
    /\ UNCHANGED <<alloc_vars, conversion>>

ComputeEstimatedUrgency ==
    /\ pc = "call"
    /\ call.fn = "compute_estimated_urgency"
    /\ LET eu == compute_estimated_urgency(call.remaining_hours, urgency_coefficients)
       IN  /\ call' = [call EXCEPT !.returned = eu.ok, !.result = eu.value]
           /\ pc' = IF eu.ok THEN "returned" ELSE "call_error"
    /\ UNCHANGED <<alloc_vars, conversion>>

GetLongRangeTimeMap ==
    /\ pc = "call"
    /\ call.fn = "get_long_range_time_map"
    /\ LET got == get_long_range_time_map(long_range_time_map, call.time_map_names,
                                          today_weekday, clock, calendars)
       IN  /\ long_range_time_map' = got.cache
           /\ call' = [call EXCEPT
                          !.returned = TRUE,
                          !.result = [task_time_map |-> got.cache[got.key],
                                      today_used_hours |-> got.today_used_hours]]
    /\ pc' = "returned"
    /\ UNCHANGED <<inputs, par_vars, seq_vars, run_vars, modifies, conversion>>

NextCalls == GetAvailableHours \/ ComputeEstimatedUrgency \/ GetLongRangeTimeMap

SpecCalls == InitCalls /\ [][NextCalls]_vars

\* ================================================================== claims

\* The sum of the values of a map with integer keys.
RECURSIVE SumMap(_)
SumMap(f) ==
    IF DOMAIN f = {} THEN 0
    ELSE LET k == CHOOSE x \in DOMAIN f : TRUE
         IN  f[k] + SumMap([x \in DOMAIN f \ {k} |-> f[x]])

\* The estimated hours of the task behind an info, read from the snapshot.
EstimatedOf(u) == PDTH_to_hours(task_info[u].task.estimated).value * TicksPerHour

\* The hours task u has on date d.
HoursOn(u, d) ==
    IF d \in DOMAIN task_info[u].scheduling THEN task_info[u].scheduling[d] ELSE 0

\* The dates on which task u has hours.
DatesOf(u) == {d \in DOMAIN task_info[u].scheduling : task_info[u].scheduling[d] > 0}

\* All the hours allocated on date d.
DayAllocated(d) ==
    SumMap([u \in DOMAIN task_info |-> HoursOn(u, d)])

\* A step that allocates hours to task u.
AllocatedTo(u) ==
    /\ u \in DOMAIN task_info
    /\ u \in DOMAIN task_info'
    /\ task_info'[u].remaining_hours < task_info[u].remaining_hours

\* C1: in the parallel allocator, for every schedulable task and after every
\* step, the hours of its scheduling map plus its remaining_hours are its
\* estimated hours.
C1_SchedulingPlusRemainingIsEstimated ==
    \A u \in DOMAIN task_info :
        SumMap(task_info[u].scheduling) + task_info[u].remaining_hours = EstimatedOf(u)

\* A task has had more than one block on a date and still has hours left.
C1_Witness ==
    \E u \in DOMAIN task_info :
        /\ task_info[u].remaining_hours > 0
        /\ \E d \in DOMAIN task_info[u].scheduling :
               task_info[u].scheduling[d] > task_info[u].min_block
               /\ task_info[u].min_block > 0

\* C2 as stated: for every day begun, the hours allocated on it over all the
\* tasks never exceed total_available_hours of that day, the greatest
\* task_time_map[d] over the tasks when the day starts (less today_used_hours
\* on day 0).
C2_DayAllocationsWithinTotal ==
    \A d \in DOMAIN day_totals : DayAllocated(d) <= day_totals[d]

\* C2 amended: the hours allocated on a day over all the tasks never exceed
\* total_available_hours of that day or 0, whichever is greater (a day whose
\* total is negative gets no hours), and a day not begun has no hours.
C2_DayAllocationsWithinClampedTotal ==
    \A d \in Days :
        DayAllocated(d) <= (IF d \in DOMAIN day_totals THEN Max2(day_totals[d], 0) ELSE 0)

\* Two tasks share a day whose total they use up.
C2_Witness ==
    \E d \in DOMAIN day_totals :
        /\ day_totals[d] > 0
        /\ DayAllocated(d) = day_totals[d]
        /\ \A u \in DOMAIN task_info : HoursOn(u, d) > 0
        /\ Cardinality(DOMAIN task_info) > 1

\* The urgency a recomputation would give task v now.
FreshUrgency(v) ==
    task_info[v].urgency - task_info[v].estimated_urgency
    + compute_estimated_urgency(task_info[v].remaining_hours, urgency_coefficients).value

\* Task v is a candidate that can accept time now.
CanAccept(v) ==
    /\ v \in Range(tasks_remaining)
    /\ task_info[v].remaining_hours > 0
    /\ task_time_map(task_info[v])[day_offset + 1] > 0

\* C3: every allocation goes to a candidate whose freshly recomputed urgency
\* is the highest among the candidates that can accept time at that moment.
C3_AllocationToMostUrgent ==
    [][\A u \in Tasks :
          AllocatedTo(u) =>
              \A v \in Tasks : CanAccept(v) => FreshUrgency(v) <= FreshUrgency(u)]_vars

\* C4: a task that depends on a task with remaining_hours > 0 receives no
\* allocation.
C4_NoAllocationWhileDependencyOpen ==
    [][\A u \in Tasks :
          AllocatedTo(u) =>
              \A v \in task_info[u].task.depends :
                  v \in DOMAIN task_info => task_info[v].remaining_hours <= 0]_vars

\* C5: in the schedule produced, if task a depends on task b and both have
\* hours, the earliest date of a is not before the latest date of b.
C5_DependentStartsAfterDependency ==
    pc \in {"emit", "done"} =>
        \A a, b \in DOMAIN task_info :
            (b \in task_info[a].task.depends /\ DatesOf(a) # {} /\ DatesOf(b) # {}) =>
                \A da \in DatesOf(a) : \A db \in DatesOf(b) : da >= db

\* C6: no task with a wait date has hours on a date before it.
C6_NoAllocationBeforeWait ==
    \A u \in DOMAIN task_info :
        \A d \in DatesOf(u) : \A w \in task_info[u].task.wait : d >= w

\* C9 as stated: the hours a task has on one day never exceed its min_block.
C9_DayHoursWithinMinBlock ==
    \A u \in DOMAIN task_info :
        \A d \in DOMAIN task_info[u].scheduling : HoursOn(u, d) <= task_info[u].min_block

\* C9 amended: every single allocation is at most the task's min_block; the
\* hours of several allocations on one day may add up to more.
C9_EachAllocationWithinMinBlock ==
    [][\A u \in Tasks :
          AllocatedTo(u) =>
              task_info[u].remaining_hours - task_info'[u].remaining_hours
                  <= task_info[u].min_block]_vars

\* A task has had two allocations on one day: a full block and a part.
C9_Witness ==
    \E u \in DOMAIN task_info :
        \E d \in DOMAIN task_info[u].scheduling :
            /\ task_info[u].min_block > 0
            /\ HoursOn(u, d) > task_info[u].min_block
            /\ HoursOn(u, d) < 2 * task_info[u].min_block

\* The text t shows the hours h (in ticks) rounded to two decimals.
ShowsTwoDecimals(t, h) ==
    LET parts == Split(t, ".")
    IN  /\ Len(parts) = 2
        /\ Len(parts[2]) = 2
        /\ ParseInt(parts[1]).ok /\ ParseInt(parts[2]).ok
        /\ LET hundredths == 100 * ParseInt(parts[1]).value + ParseInt(parts[2]).value
           IN  2 * Abs(hundredths * TicksPerHour - 100 * h) <= TicksPerHour

\* The note has one line per scheduled date, in ascending order of date, with
\* the date's hours in two decimals.
NoteOf(note, scheduling) ==
    /\ Len(note) = Cardinality(DOMAIN scheduling)
    /\ \A i \in DOMAIN note :
           /\ note[i].date \in DOMAIN scheduling
           /\ ShowsTwoDecimals(note[i].hours, scheduling[note[i].date])
    /\ \A i, j \in DOMAIN note : i < j => note[i].date < note[j].date

\* C10: once the parallel emitter has run, every task with a non-empty
\* scheduling map has been modified with scheduled = its earliest date,
\* completion_date = its latest date and a note of one line per date in
\* ascending order with the hours in two decimals; a task with an empty
\* scheduling map has not been modified.
C10_EmitterWritesSchedule ==
    (pc = "done" /\ run = 1) =>
        \A u \in DOMAIN task_info :
            LET scheduling == task_info[u].scheduling
                mine == {i \in DOMAIN modifies : modifies[i].id = task_info[u].task.id}
            IN  IF DOMAIN scheduling = {} THEN mine = {}
                ELSE \E i \in mine :
                        /\ \A d \in DOMAIN scheduling :
                               modifies[i].scheduled <= d /\ d <= modifies[i].completion_date
                        /\ modifies[i].scheduled \in DOMAIN scheduling
                        /\ modifies[i].completion_date \in DOMAIN scheduling
                        /\ NoteOf(modifies[i].scheduling, scheduling)

\* The emitter has run on a task with hours, which it has modified, and on a
\* task with no hours.
C10_Witness ==
    /\ pc = "done"
    /\ \E u \in DOMAIN task_info :
           /\ DOMAIN task_info[u].scheduling # {}
           /\ \E i \in DOMAIN modifies : modifies[i].id = task_info[u].task.id
    /\ \E u \in DOMAIN task_info : DOMAIN task_info[u].scheduling = {}

\* C8: two runs of the allocator with the same tasks, calendars, time maps,
\* coefficients and wall clock produce the same allocation maps: when the
\* second run is done, every task has the dates and hours the first run gave it.
C8_SecondRunSameAllocation ==
    (pc = "done" /\ run = 2) =>
        /\ DOMAIN task_info = DOMAIN first_result
        /\ \A u \in DOMAIN task_info : task_info[u].scheduling = first_result[u]

\* The dates of the lines of a scheduling note.
NoteDates(note) == {note[i].date : i \in DOMAIN note}

\* The wait dates of the tasks with Taskwarrior id `id`.
WaitOf(id) == UNION {tasks[i].wait : i \in {j \in DOMAIN tasks : tasks[j].id = id}}

\* C7: in the sequential allocator, a task with a wait date has no hours, no
\* start_date and no end_date on a date before its wait date, neither while
\* its days are walked nor in what is written for it.
C7_SequentialNothingBeforeWait ==
    /\ pc = "seq_day" =>
           \A w \in tasks[seq_i].wait :
               \A d \in start_date \cup end_date \cup NoteDates(scheduling_note) : d >= w
    /\ \A i \in DOMAIN modifies :
           \A w \in WaitOf(modifies[i].id) :
               /\ modifies[i].scheduled >= w
               /\ modifies[i].completion_date >= w
               /\ \A d \in NoteDates(modifies[i].scheduling) : d >= w

\* A task waiting for today, with working hours left today, has been
\* scheduled on tomorrow.
C7_Witness ==
    \E i \in DOMAIN modifies :
        /\ WaitOf(modifies[i].id) = {0}
        /\ modifies[i].scheduled = 1
        /\ Len(modifies) = 1
        /\ \E k \in DOMAIN long_range_time_map :
               long_range_time_map[k][1] > used_hours[1]

\* C11: in one run of either allocator, at most one `task <id> modify` is
\* issued per task.
C11_OneModifyPerTask ==
    \A i, j \in DOMAIN modifies : modifies[i].id = modifies[j].id => i = j

\* The sequential allocator walks the tasks a second time after a task has
\* been modified and struck off.
C11_Witness ==
    /\ pc = "seq_day"
    /\ passes = 2
    /\ \E i \in DOMAIN todo :
           ~todo[i] /\ \E m \in DOMAIN modifies : modifies[m].id = tasks[i].id

\* The allocators are to pass over the task: its status is one to avoid, or
\* it has no estimated or no time_map.
Skippable(task) ==
    task.status \in AVOID_STATUS \/ task.estimated = <<>> \/ task.time_map = <<>>

\* The tasks of the snapshot with Taskwarrior id `id`.
TasksWithId(id) == {tasks[i] : i \in {j \in DOMAIN tasks : tasks[j].id = id}}

\* C12: a task whose status is completed, deleted or recurring, or that has
\* no estimated or no time_map, is passed over by both allocators: it gets no
\* entry in task_info (no allocation, no share of a day's budget), its days
\* are never walked by the sequential allocator, no modify is issued for it
\* and no exception is raised at it.
C12_SkippedTasksUntouched ==
    /\ \A u \in DOMAIN task_info : ~Skippable(task_info[u].task)
    /\ pc = "seq_day" => ~Skippable(tasks[seq_i])
    /\ \A m \in DOMAIN modifies :
           \E t \in TasksWithId(modifies[m].id) : ~Skippable(t)
    /\ \A id \in raised : \E t \in TasksWithId(id) : ~Skippable(t)

\* C13: in the sequential allocator, every task that is given an end date is
\* modified, and it is printed as late (the record in warnings stands for the
\* line naming its id and description) exactly when it has a due date and the
\* completion_date written is later than it; nothing else is printed as late.
C13_LateTasksWrittenAndWarned ==
    passes > 0 =>
        /\ \A m \in DOMAIN modifies :
               \A t \in TasksWithId(modifies[m].id) :
                   (\E w \in DOMAIN warnings : warnings[w] = t.id)
                       <=> (\E d \in t.due : modifies[m].completion_date > d)
        /\ \A w \in DOMAIN warnings :
               \E m \in DOMAIN modifies : modifies[m].id = warnings[w]
        /\ \A i \in DOMAIN tasks :
               (todo[i] = FALSE /\ ~Skippable(tasks[i]) /\ i < seq_i)
                   => \E m \in DOMAIN modifies : modifies[m].id = tasks[i].id

\* A task due today has been given tomorrow as its end date, modified and
\* printed as late.
C13_Witness ==
    /\ passes > 0
    /\ \E m \in DOMAIN modifies :
           /\ modifies[m].completion_date = 1
           /\ \E t \in TasksWithId(modifies[m].id) : t.due = {0}
           /\ \E w \in DOMAIN warnings : warnings[w] = modifies[m].id

\* C14: once the parallel allocator has returned, every task whose latest
\* scheduled date is later than its due date has been modified and has a
\* warning record.
C14_ParallelLateScheduledAndWarned ==
    (pc = "done" /\ passes = 0) =>
        \A u \in DOMAIN task_info :
            (\E d \in task_info[u].task.due : \E e \in DatesOf(u) : e > d) =>
                /\ \E m \in DOMAIN modifies : modifies[m].id = task_info[u].task.id
                /\ \E w \in DOMAIN warnings : warnings[w] = task_info[u].task.id

\* A schedulable task names a time map the configuration does not hold.
UnknownTimeMapReferenced ==
    \E i \in DOMAIN tasks : ~Skippable(tasks[i]) /\ ~KnownNames(tasks[i].time_map)

\* C15: when a schedulable task names a time map that the configuration does
\* not hold, the run of either allocator does not complete and no modify is
\* ever issued for any task.
C15_UnknownTimeMapAbortsBeforeAnyModify ==
    UnknownTimeMapReferenced => (pc # "done" /\ modifies = <<>>)

\* The string the conversion was called on, when it was called on a string.
Given == conversion.duration_str

\* C16 as stated: hours_to_PDTH(PDTH_to_hours(s)) is s for every well-formed
\* PDTH string s with integer day and hour fields.
C16_RoundTripReturnsTheString ==
    (pc = "converted" /\ Given \in WellFormed) => conversion.pdth = Given

\* C16, amended: hours_to_PDTH(PDTH_to_hours(s)) is the string
\* P{n div 24}DT{n mod 24}H of the n hours s stands for, whatever the form of
\* s; it is s itself exactly when s is written with both fields and an hour
\* field below 24.
C16_RoundTripReturnsTheCanonicalString ==
    (pc = "converted" /\ Given \in WellFormed) =>
        /\ \A d \in DayFields, h \in HourFields :
              /\ Given = LongForm(d, h) =>
                    conversion.pdth = LongForm(d + (h \div 24), h % 24)
              /\ Given = HoursForm(h) =>
                    conversion.pdth = LongForm(h \div 24, h % 24)
              /\ Given = DaysForm(d) => conversion.pdth = LongForm(d, 0)
        /\ conversion.pdth = Given <=>
              \E d \in DayFields, h \in 0..23 : Given = LongForm(d, h)

C16_Witness ==
    /\ pc = "converted"
    /\ Given = LongForm(1, 5)
    /\ conversion.pdth = Given

\* C17: PDTH_to_hours returns d * 24 + h on P{d}DT{h}H, d * 24 on P{d}D and
\* h on PT{h}H, and PDTH_to_hours(hours_to_PDTH(n)) is n for every
\* non-negative integer n.
C17_ParseIsDaysTimes24PlusHours ==
    /\ (pc \in {"format_back", "converted", "conversion_error"} /\ Given \in WellFormed) =>
          \A d \in DayFields, h \in HourFields :
              /\ Given = LongForm(d, h) =>
                    conversion.hours = [ok |-> TRUE, value |-> d * 24 + h]
              /\ Given = DaysForm(d) =>
                    conversion.hours = [ok |-> TRUE, value |-> d * 24]
              /\ Given = HoursForm(h) =>
                    conversion.hours = [ok |-> TRUE, value |-> h]
    /\ (pc \in {"converted", "conversion_error"} /\ Given = <<>>) =>
          conversion.back = [ok |-> TRUE, value |-> conversion.hours.value]

C17_Witness ==
    /\ pc = "converted"
    /\ Given = <<>>
    /\ conversion.hours.value = 49
    /\ conversion.pdth = LongForm(2, 1)
    /\ conversion.back.value = 49

\* C18: PDTH_to_hours accepts the hours-only form P{n}H and returns n hours.
C18_HoursOnlyFormAccepted ==
    \A n \in HourFields :
        (pc \notin {"parse", "format"} /\ Given = BareHoursForm(n)) =>
            /\ pc # "conversion_error"
            /\ conversion.hours = [ok |-> TRUE, value |-> n]

\* A step of the sequential allocator that gives hours of a day to the task
\* at hand.
GivesHours == pc = "seq_day" /\ used_hours' # used_hours

\* The tasks before the task at hand that are schedulable and more urgent
\* than it: the pass began each of them earlier.
MoreUrgentBefore ==
    {j \in 1..(seq_i - 1) :
        ~Skippable(tasks[j]) /\ tasks[j].urgency > tasks[seq_i].urgency}

\* C19: the sequential allocator never gives hours to a task while a more
\* urgent schedulable task that it began earlier is not completed (nothing
\* left to do and its modify issued).
C19_StrictUrgencyOrder ==
    [][GivesHours =>
          \A j \in MoreUrgentBefore :
              /\ ~todo[j]
              /\ \E m \in DOMAIN modifies : modifies[m].id = tasks[j].id]_vars

\* C20: in the parallel allocator, remaining_hours of every task is at least
\* 0 after every allocation step.
C20_RemainingHoursNeverNegative ==
    passes = 0 => \A u \in DOMAIN task_info : task_info[u].remaining_hours >= 0

\* An allocation has just brought a task down to exactly 0 remaining hours
\* on a day on which it had been given hours before.
C20_Witness ==
    /\ pc \in {"for", "while"}
    /\ allocated
    /\ \E u \in DOMAIN task_info :
          /\ task_info[u].remaining_hours = 0
          /\ u \notin Range(tasks_remaining)
          /\ day_offset \in DOMAIN task_info[u].scheduling
          /\ task_info[u].scheduling[day_offset] > task_info[u].min_block
          /\ task_info[u].min_block > 0

\* The steps of the parallel allocator that have allocated hours leave it at
\* one of these positions; `allocated` tells that the pass has allocated.
AfterAllocation == passes = 0 /\ pc \in {"for", "while"} /\ allocated

\* C21: in the parallel allocator, task_time_map[d] of every task is at least
\* 0 for every day d of the horizon after every allocation step, whatever the
\* calendars.
C21_TaskTimeMapNeverNegative ==
    AfterAllocation =>
        \A u \in DOMAIN task_info : \A d \in 1..DaysAhead :
            task_time_map(task_info[u])[d] >= 0

\* config["scheduler"]["weight_urgency"] = 0.7 and ["weight_due_date"] = 0.3,
\* in tenths.
WeightScale == 10

weight_urgency == 7

weight_due_date == 3

\* The estimated component of a task's urgency at initialization.
InitialEstimatedUrgency(u) ==
    compute_estimated_urgency(
        PDTH_to_hours(task_info[u].task.estimated).value * TicksPerHour,
        urgency_coefficients).value

\* The due and age components: the tasks of the export carry neither a due
\* date nor an entry date.
DueUrgency(u) == 0

AgeUrgency(u) == 0

\* base: the initial urgency minus the unweighted components.
BaseUrgency(u) ==
    task_info[u].task.urgency - InitialEstimatedUrgency(u) - DueUrgency(u) - AgeUrgency(u)

\* The urgencies have just been recomputed and the candidates sorted.
JustRecomputed == passes = 0 /\ pc = "for" /\ walk_idx = 1

\* C22: with the weights 0.7 and 0.3 in force, recomputing the urgencies
\* gives each candidate the total
\* base + w_urgency * (estimated_urgency + age_urgency) + w_due * due_urgency.
C22_WeightedTotalAfterRecompute ==
    JustRecomputed =>
        \A u \in Range(tasks_remaining) :
            WeightScale * task_info[u].urgency =
                WeightScale * BaseUrgency(u)
                    + weight_urgency * (task_info[u].estimated_urgency + AgeUrgency(u))
                    + weight_due_date * DueUrgency(u)

\* The windows of the weekday of a date in a time map.
WindowsOn(name, date) == time_maps[name][WeekdayOf(today_weekday, date)]

\* The sum of the lengths of the windows, in ticks.
WindowLengths(windows) ==
    SumSeq([i \in DOMAIN windows |->
               hours_to_decimal(windows[i][2]) - hours_to_decimal(windows[i][1])])

\* The length, in ticks, of the overlap of a window with an event clipped to
\* 00:00 and 23:59 of the date.
Overlap(window, event, date) ==
    LET event_start == IF event.start[1] < date THEN 0 ELSE event.start[2]
        event_end == IF event.end[1] > date THEN 23 * 60 + 59 ELSE event.end[2]
    IN  5 * Max2(0, Min2(hours_to_time(window[2]), event_end)
                        - Max2(hours_to_time(window[1]), event_start))

\* The returned call of get_available_hours, if there is one.
AvailableReturned == pc = "returned" /\ call.fn = "get_available_hours"

\* An all-day event of the date d: to the next midnight, or to 23:59.
AllDay(d) == {Event(d, 0, d + 1, 0), Event(d, 0, d, 1439)}

\* C23: get_available_hours returns 0 when the weekday has no windows, else
\* the sum of the window lengths minus, for every event of every calendar
\* with start.date <= date <= end.date, clipped to the date, and every
\* window, the length of their overlap; an all-day event of a date makes the
\* availability of that date 0 and leaves the dates before and after whole.
C23_AvailableHoursIsWindowsMinusOverlaps ==
    AvailableReturned =>
        LET windows == WindowsOn(call.time_map, call.date)
            Covers(event) == event.start[1] <= call.date /\ call.date <= event.end[1]
            blocked ==
                SumSeq([c \in DOMAIN calendars |->
                    SumSeq([k \in DOMAIN calendars[c] |->
                        IF Covers(calendars[c][k])
                        THEN SumSeq([i \in DOMAIN windows |->
                                 Overlap(windows[i], calendars[c][k], call.date)])
                        ELSE 0])])
        IN  /\ windows = <<>> => call.result = 0
            /\ call.result = WindowLengths(windows) - blocked
            /\ \A d \in CallDates :
                  (\E event \in AllDay(d) : calendars = << <<event>> >>) =>
                      /\ call.date = d => call.result = 0
                      /\ call.date \in {d - 1, d + 1} =>
                            call.result = WindowLengths(windows)

C23_Witness ==
    /\ AvailableReturned
    /\ calendars = << <<Event(0, 1320, 1, 1439)>>, <<Event(1, 570, 1, 630)>> >>
    /\ call.time_map = "work"
    /\ call.date = 1
    /\ call.result = 0 - 150

\* A step of the for loop of the parallel allocator that changes the task at
\* hand: hours are allocated to it.
Applied ==
    /\ passes = 0
    /\ pc = "for"
    /\ walk_idx <= Len(walk)
    /\ task_info' # task_info

\* C24: every allocation step applied to a task on day d takes
\* min(remaining_hours, task_time_map[d], day_remaining, min_block), on the
\* values just before the step, from the task's remaining hours, from its
\* task_time_map[d] and from the day's remaining hours, and adds it to the
\* hours of the date.
C24_AllocationIsMinOfFour ==
    [][Applied =>
          LET u == walk[walk_idx]
              info == task_info[u]
              amount == Min2(Min2(info.remaining_hours,
                                  task_time_map(info)[day_offset + 1]),
                             Min2(day_remaining_hours, info.min_block))
          IN  /\ task_info'[u].remaining_hours = info.remaining_hours - amount
              /\ long_range_time_map'[info.key][day_offset + 1] =
                    task_time_map(info)[day_offset + 1] - amount
              /\ day_remaining_hours' = day_remaining_hours - amount
              /\ task_info'[u].scheduling[day_offset] = HoursOn(u, day_offset) + amount]_vars

\* A task has been given less than its min_block on the day at hand, all
\* that the day had left, and another one a whole min_block.
C24_Witness ==
    /\ passes = 0
    /\ pc = "while"
    /\ allocated
    /\ day_remaining_hours = 0
    /\ \E u, v \in DOMAIN task_info :
          /\ HoursOn(u, day_offset) > 0
          /\ HoursOn(u, day_offset) < task_info[u].min_block
          /\ HoursOn(v, day_offset) = task_info[v].min_block
          /\ task_info[v].min_block > 0

\* C25: in the parallel allocator an allocation whose final amount is not
\* positive is never applied, so that a date is a key of a task's scheduling
\* map only with more than 0 hours recorded for it, whatever min_block is.
C25_OnlyPositiveAllocationsApplied ==
    passes = 0 =>
        \A u \in DOMAIN task_info : \A d \in DOMAIN task_info[u].scheduling :
            task_info[u].scheduling[d] > 0

\* C26: in the parallel allocator, of two candidates that have equal urgency
\* at a sort the one with the smaller uuid is placed first (and so is the
\* first to be allocated by the for loop that follows).
C26_TiesBrokenByUuid ==
    JustRecomputed =>
        \A i, j \in DOMAIN tasks_remaining :
            (/\ i < j
             /\ task_info[tasks_remaining[i]].urgency = task_info[tasks_remaining[j]].urgency)
                => tasks_remaining[i] < tasks_remaining[j]

\* The hours a coefficient key P{n}H stands for.
HoursOfKey(key) == DigitsToNat(SubSeq(key, 2, Len(key) - 1))

\* C27: compute_estimated_urgency(r, coefficients) uses the coefficient
\* whose key's hours are nearest to r rounded to integer hours, the smaller
\* key on a tie, and returns that coefficient times r, whatever the order of
\* the keys in the table.
C27_NearestCoefficientTimesRemaining ==
    (pc \in {"returned", "call_error"} /\ call.fn = "compute_estimated_urgency") =>
        LET target == (call.remaining_hours + TicksPerHour \div 2) \div TicksPerHour
            Distance(i) == Abs(HoursOfKey(urgency_coefficients[i].key) - target)
            nearest ==
                CHOOSE i \in DOMAIN urgency_coefficients :
                    \A j \in DOMAIN urgency_coefficients :
                        \/ Distance(i) < Distance(j)
                        \/ /\ Distance(i) = Distance(j)
                           /\ HoursOfKey(urgency_coefficients[i].key)
                                 <= HoursOfKey(urgency_coefficients[j].key)
        IN  /\ pc = "returned"
            /\ call.result =
                  urgency_coefficients[nearest].coefficient * call.remaining_hours

\* C28: in the parallel allocator a task's urgency changes only by
\* urgency <- urgency - old estimated urgency + new estimated urgency: for
\* every task, at every step, urgency - estimated_urgency is what it was at
\* initialization, the urgency of the snapshot less the estimated urgency of
\* the estimated hours.
C28_UrgencyLessEstimatedIsKept ==
    passes = 0 =>
        \A u \in DOMAIN task_info :
            task_info[u].urgency - task_info[u].estimated_urgency = BaseUrgency(u)

\* A candidate's estimated urgency has been recomputed to another value than
\* the one it had at initialization.
C28_Witness ==
    /\ JustRecomputed
    /\ \E u \in Range(tasks_remaining) :
          /\ task_info[u].estimated_urgency # InitialEstimatedUrgency(u)
          /\ task_info[u].urgency # task_info[u].task.urgency

\* What the names of a key give on a date when a negative net availability
\* counts as 0.
ClampedSum(key, d) ==
    SumSeq([n \in DOMAIN key |->
               Max2(0, get_available_hours(time_maps[key[n]],
                                           WeekdayOf(today_weekday, d), d, calendars))])

\* C29: a negative net availability of one time map on a date is treated as
\* 0 where it is used: in the horizon that get_long_range_time_map computes
\* for a task it does not lower the hours of the task's other time maps on
\* that date, so that no entry is below what the non-negative availabilities
\* give.
C29_NegativeAvailabilityClampedAtUse ==
    (pc = "returned" /\ call.fn = "get_long_range_time_map" /\ ~call.hit) =>
        \A d \in Days :
            call.result.task_time_map[d + 1] >= ClampedSum(call.time_map_names, d)

\* The returned call of get_long_range_time_map, if there is one.
LongRangeReturned == pc = "returned" /\ call.fn = "get_long_range_time_map"

\* The hours of the windows of one name that lie before the clock t: the
\* windows (s, e) are scanned in order, the window with s <= t <= e gives
\* t - s and ends the scan, a window with t > e gives e - s, a window with
\* t < s gives nothing.  The times are in ticks.
RECURSIVE ElapsedInWindows(_, _)
ElapsedInWindows(windows, t) ==
    IF windows = <<>> THEN 0
    ELSE LET s == hours_to_decimal(Head(windows)[1])
             e == hours_to_decimal(Head(windows)[2])
         IN  IF s <= t /\ t <= e THEN t - s
             ELSE IF t > e THEN e - s + ElapsedInWindows(Tail(windows), t)
             ELSE ElapsedInWindows(Tail(windows), t)

\* C30: get_long_range_time_map computes today_used on every call, on a
\* cache hit too, as the sum over the names of the hours of today's windows
\* that lie before the clock.
C30_TodayUsedIsElapsedWindowTime ==
    LongRangeReturned =>
        call.result.today_used_hours =
            SumSeq([n \in DOMAIN call.time_map_names |->
                       ElapsedInWindows(time_maps[call.time_map_names[n]][today_weekday],
                                        time_to_decimal(clock))])

\* C31: the horizon cache does not outlive an invocation and holds unmodified
\* horizons: the vector get_long_range_time_map returns for a key is the
\* availability computed from the time maps and the calendars, whatever was
\* allocated earlier in this or in a previous invocation of the process.
\* (It is looked at when check_tasks_parallel has called it for every
\* schedulable task and has allocated nothing yet in this invocation.)
C31_ReturnedHorizonIsComputedAvailability ==
    (passes = 0 /\ pc = "day" /\ day_offset = 0) =>
        \A u \in DOMAIN task_info :
            task_time_map(task_info[u]) =
                ComputeTimeMap(task_info[u].key, today_weekday, calendars)

\* C32: in the sequential allocator a waiting task is masked on a date
\* exactly when its wait date is later than that date: on a later wait date
\* the day gives it nothing, and on the wait date itself (and after it) a day
\* with employable time gives it hours.
C32_SequentialMaskedOnlyBeforeWait ==
    [][(/\ pc = "seq_day"
        /\ seq_offset < DaysAhead
        /\ long_range_time_map[tasks[seq_i].time_map][seq_offset + 1] >
               used_hours[seq_offset + 1]) =>
           \A w \in tasks[seq_i].wait :
               IF w > seq_offset
               THEN task_remaining_hours' = task_remaining_hours
               ELSE task_remaining_hours' < task_remaining_hours]_vars

\* The parallel allocator as a running program, at 08:00 on exports of tasks
\* without wait dates and dependencies (which parallel.py does not read) with
\* every min_block of BlockChoices: once the straight-line building of
\* task_info is done, the interpreter executes the next statement of the
\* loops (the day loop with its while and for loops, and the emitting loop)
\* as long as there is one.
SpecLive ==
    /\ ParallelStart(Exports(BlockChoices, {{}}, {{}}), CalendarChoices, {480})
    /\ [][Next]_vars
    /\ WF_vars(StartDay \/ SortPass \/ EndDay \/ ForStep \/ EndPass \/ EmitTask \/ Finish)

\* C33: the parallel allocator terminates for every finite input, for every
\* min_block value including 0: once task_info is built, the day loop reaches
\* the end of the horizon and the emitter runs to its end.
C33_ParallelTerminates == (pc # "init") ~> (pc \in {"done", "error"})

\* `while any(todo)` begins a further pass over the tasks, after the
\* MaxPasses passes that `passes` counts.
SeqPassAgain ==
    /\ pc = "seq_while"
    /\ \E i \in DOMAIN todo : todo[i]
    /\ passes = MaxPasses
    /\ seq_i' = 1
    /\ pc' = "seq_task"
    /\ UNCHANGED <<inputs, conversion, call, par_vars, run_vars, long_range_time_map, modifies, todo,
                   used_hours, seq_offset, task_remaining_hours, is_starting,
                   start_date, end_date, scheduling_note, warnings, passes>>

NextSeqLive == NextSeq \/ SeqPassAgain

\* The sequential allocator as a running program, with no bound on the
\* number of passes, at 08:00 (when nothing of today has elapsed) with no
\* calendar: the interpreter executes the next statement as long as there is
\* one.
SpecSeqLive ==
    /\ SequentialStart(SeqExportChoices, {<<>>}, {480})
    /\ [][NextSeqLive]_vars
    /\ WF_vars(NextSeqLive)

\* C34: the sequential allocator terminates for every finite input: the loop
\* `while any(todo)` eventually exits, also when a task cannot be completed
\* within the horizon.
C34_SequentialTerminates == <>(pc \in {"done", "error"})

\* C35: in the parallel allocator, an allocation to a task changes only that
\* task's remaining_hours, task_time_map and scheduling (and the day's
\* budget): every other task keeps its task_time_map, remaining_hours and
\* scheduling, also when it names the same time maps.
C35_AllocationLeavesOtherTasks ==
    [][(pc = "for" /\ walk_idx <= Len(walk)) =>
           \A v \in DOMAIN task_info \ {walk[walk_idx]} :
               /\ task_info'[v].remaining_hours = task_info[v].remaining_hours
               /\ task_info'[v].scheduling = task_info[v].scheduling
               /\ long_range_time_map'[task_info'[v].key] =
                      long_range_time_map[task_info[v].key]]_vars

\* C36: in the parallel allocator a task never receives more hours on day 0
\* than its own net availability task_time_map[0] - today_used_hours, as
\* get_long_range_time_map returned them for the task when the allocator
\* started (nothing when its own windows of today have elapsed), whatever
\* other tasks' time maps leave of today.
C36_DayZeroWithinOwnNetAvailability ==
    passes = 0 =>
        \A u \in DOMAIN task_info :
            HoursOn(u, 0) <=
                Max2(ComputeTimeMap(task_info[u].key, today_weekday, calendars)[1]
                         - task_info[u].today_used_hours,
                     0)

\* C37: in the sequential allocator the elapsed hours of today are charged to
\* day 0 once: the first task that is started (get_long_range_time_map has
\* been called for it and its days are about to be walked) adds its
\* today_used_hours to used_hours[0], and starting a further task, in the
\* same or in a later pass, leaves used_hours[0] as the allocations made it.
C37_ElapsedHoursChargedOnce ==
    [][(pc = "seq_task" /\ pc' = "seq_day") =>
           used_hours'[1] =
               IF long_range_time_map = EmptyMap
               THEN used_hours[1]
                        + get_long_range_time_map(long_range_time_map, tasks[seq_i].time_map,
                                                  today_weekday, clock, calendars).today_used_hours
               ELSE used_hours[1]]_vars

\* C38: with windows given as decimal clock values, the today_used that
\* get_long_range_time_map returns never exceeds the gross working hours of
\* today's windows (what get_available_hours gives for today with no
\* calendars), and windows that have fully elapsed contribute exactly their
\* length in hours: when every window of today ended before the clock,
\* today_used is the gross working hours.
C38_TodayUsedWithinGrossHours ==
    LongRangeReturned =>
        LET names == call.time_map_names
            gross ==
                SumSeq([n \in DOMAIN names |->
                           get_available_hours(time_maps[names[n]], today_weekday, 0, <<>>)])
            elapsed ==
                \A n \in DOMAIN names :
                    LET windows == time_maps[names[n]][today_weekday]
                    IN  \A w \in DOMAIN windows :
                            time_to_decimal(clock) > hours_to_decimal(windows[w][2])
        IN  /\ call.result.today_used_hours <= gross
            /\ elapsed => call.result.today_used_hours = gross

\* ------------------------------- the allocator capped by the global block

\* One pass of the for loop of the check_tasks_parallel of __main__.py.
\* main() reads block from the scheduler configuration and passes it as
\* max_block; it is taken here to be the min_block that all the tasks of the
\* export carry.  The amount is min(max_block, remaining, daily available,
\* day remaining); the task at hand is passed over when nothing is available
\* to it on this day or the amount is not positive; the rest is the for loop
\* of parallel.py.
ForStepBlock ==
    /\ pc = "for"
    /\ walk_idx <= Len(walk)
    /\ LET uuid == walk[walk_idx]
           info == task_info[uuid]
           day == day_offset + 1
           max_block == tasks[1].min_block
           allocation == Min2(max_block, Uncut(info))
       IN  IF task_time_map(info)[day] <= 0 \/ allocation <= 0
           THEN /\ walk_idx' = walk_idx + 1
                /\ UNCHANGED <<long_range_time_map, task_info, pc,
                               day_remaining_hours, tasks_remaining, allocated>>
           ELSE /\ task_info' =
                       [task_info EXCEPT
                           ![uuid].remaining_hours = @ - allocation,
                           ![uuid].scheduling = Recorded(@, day_offset, allocation)]
                /\ day_remaining_hours' = day_remaining_hours - allocation
                /\ long_range_time_map' =
                       [long_range_time_map EXCEPT ![info.key][day] = @ - allocation]
                /\ allocated' = TRUE
                /\ tasks_remaining' =
                       IF \/ task_info'[uuid].remaining_hours <= 0
                          \/ long_range_time_map'[info.key][day] <= 0
                       THEN SelectSeq(tasks_remaining, LAMBDA u : u # uuid)
                       ELSE tasks_remaining
                /\ IF day_remaining_hours' <= 0
                   THEN pc' = "while" /\ walk_idx' = walk_idx
                   ELSE pc' = "for" /\ walk_idx' = walk_idx + 1
    /\ UNCHANGED <<inputs, conversion, call, seq_vars, run_vars, info_order, day_offset, total_available_hours, walk,
                   emit_idx, modifies, day_totals>>

\* The check_tasks_parallel of __main__.py: that of parallel.py but for the
\* for loop.
NextBlock ==
    \/ InitializeTaskInfo
    \/ StartDay
    \/ SortPass
    \/ EndDay
    \/ ForStepBlock
    \/ EndPass
    \/ EmitTask
    \/ Finish

\* check_tasks_parallel(config, max_block) is entered on an export whose
\* tasks all have min_block = max_block.
SpecBlock ==
    /\ ParallelStart(UNION {Exports({b}, WaitChoices, SUBSET Tasks) : b \in BlockChoices},
                     CalendarChoices, ClockChoices)
    /\ [][NextBlock]_vars

\* C39: the two parallel allocators are equivalent when the cap is the same,
\* for every cap including 0: run on tasks whose min_block is the block, the
\* allocator capped by the global block makes at every pass of its for loop
\* the step the allocator capped by min_block makes, so that both go through
\* the same allocations and end with the same scheduling maps.
C39_BlockAllocatorStepsAsMinBlockAllocator ==
    [][(pc = "for" /\ walk_idx <= Len(walk)) => ForStep]_vars

====
